---------------------------- MODULE Spec2Model ----------------------------
(***************************************************************************)
(* A model of gpa.py: the transcript GPA calculator.                       *)
(*                                                                         *)
(* Page texts are strings; the three re.sub passes of preprocess_text,     *)
(* the marker split and regular_pattern.findall are computed character by  *)
(* character with the regular expressions' leftmost / greedy / lazy        *)
(* backtracking order.  Numbers are Python floats, i.e. IEEE-754 binary64  *)
(* with round-to-nearest-even: a finite value is kept exactly as m * 2^e   *)
(* with m an arbitrary-precision natural number (a sequence of limbs), and *)
(* float(), *, + and / round exactly as the hardware does.  Only           *)
(* non-negative numbers occur: the grammar's tokens carry no sign.         *)
(***************************************************************************)
EXTENDS Integers, Sequences, FiniteSets, TLC

(***************************************************************************)
(* Arbitrary-precision naturals: little-endian sequences of limbs in       *)
(* 0..Base-1 without leading (high) zero limbs; zero is <<>>.              *)
(***************************************************************************)
Base == 2^15

RECURSIVE IntBitLen(_)
IntBitLen(n) == IF n = 0 THEN 0 ELSE 1 + IntBitLen(n \div 2)
\* the number of bits of a limb
LimbBits == IntBitLen(Base - 1)

SetMin(S) == CHOOSE x \in S : \A y \in S : x <= y
SetMax(S) == CHOOSE x \in S : \A y \in S : x >= y
Max2(a, b) == IF a >= b THEN a ELSE b
Min2(a, b) == IF a <= b THEN a ELSE b

RECURSIVE BNorm(_)
BNorm(a) ==
    IF a = <<>> THEN a
    ELSE IF a[Len(a)] = 0 THEN BNorm(SubSeq(a, 1, Len(a) - 1)) ELSE a

RECURSIVE BFromInt(_)
BFromInt(n) == IF n = 0 THEN <<>> ELSE <<n % Base>> \o BFromInt(n \div Base)

RECURSIVE BToIntFrom(_, _)
BToIntFrom(a, i) == IF i > Len(a) THEN 0 ELSE a[i] + Base * BToIntFrom(a, i + 1)
\* only for values known to be below 2^31
BToInt(a) == BToIntFrom(a, 1)

Limb(a, i) == IF i <= Len(a) THEN a[i] ELSE 0

RECURSIVE BAddFrom(_, _, _, _)
BAddFrom(a, b, i, c) ==
    IF i > Len(a) /\ i > Len(b)
    THEN (IF c = 0 THEN <<>> ELSE <<c>>)
    ELSE LET s == Limb(a, i) + Limb(b, i) + c
         IN  <<s % Base>> \o BAddFrom(a, b, i + 1, s \div Base)
BAdd(a, b) == BAddFrom(a, b, 1, 0)

RECURSIVE BSubFrom(_, _, _, _)
BSubFrom(a, b, i, w) ==
    IF i > Len(a) THEN <<>>
    ELSE LET d == a[i] - Limb(b, i) - w
         IN  IF d < 0 THEN <<d + Base>> \o BSubFrom(a, b, i + 1, 1)
                      ELSE <<d>> \o BSubFrom(a, b, i + 1, 0)
\* a - b, for a >= b
BSub(a, b) == BNorm(BSubFrom(a, b, 1, 0))

RECURSIVE BCmpFrom(_, _, _)
BCmpFrom(a, b, i) ==
    IF i = 0 THEN 0
    ELSE IF a[i] > b[i] THEN 1
    ELSE IF a[i] < b[i] THEN -1
    ELSE BCmpFrom(a, b, i - 1)
\* -1, 0 or 1 as a < b, a = b, a > b
BCmp(a, b) ==
    IF Len(a) > Len(b) THEN 1
    ELSE IF Len(a) < Len(b) THEN -1
    ELSE BCmpFrom(a, b, Len(a))

RECURSIVE BMulSmallFrom(_, _, _, _)
BMulSmallFrom(a, k, i, c) ==
    IF i > Len(a)
    THEN (IF c = 0 THEN <<>> ELSE <<c>>)
    ELSE LET s == a[i] * k + c
         IN  <<s % Base>> \o BMulSmallFrom(a, k, i + 1, s \div Base)
\* a * k, for 0 <= k < Base
BMulSmall(a, k) == IF k = 0 THEN <<>> ELSE BMulSmallFrom(a, k, 1, 0)

BShlLimbs(a, n) == IF a = <<>> THEN a ELSE [i \in 1..n |-> 0] \o a

BAddRow(rest, row) == IF rest = <<>> THEN row ELSE BAdd(row, rest)
RECURSIVE BMulFrom(_, _, _)
BMulFrom(a, b, j) ==
    IF j > Len(b) THEN <<>>
    ELSE BAddRow(BMulFrom(a, b, j + 1), BShlLimbs(BMulSmall(a, b[j]), j - 1))
BMul(a, b) == BMulFrom(a, b, 1)

\* a * 2^s
BShl(a, s) == BShlLimbs(BMulSmall(a, 2^(s % LimbBits)), s \div LimbBits)

\* a \div 2^s
BShr(a, s) ==
    LET q == s \div LimbBits
        r == s % LimbBits
        d == IF q >= Len(a) THEN <<>> ELSE SubSeq(a, q + 1, Len(a))
    IN  BNorm([i \in 1..Len(d) |->
                 (d[i] \div 2^r) + (Limb(d, i + 1) % 2^r) * 2^(LimbBits - r)])

\* a % 2^s
BLow(a, s) ==
    LET q == s \div LimbBits
        r == s % LimbBits
    IN  IF q >= Len(a) THEN a
        ELSE BNorm(SubSeq(a, 1, q) \o <<a[q + 1] % 2^r>>)

BBitLen(a) == IF a = <<>> THEN 0 ELSE LimbBits * (Len(a) - 1) + IntBitLen(a[Len(a)])

BIsOdd(a) == a # <<>> /\ a[1] % 2 = 1

RECURSIVE IntTrailingZeros(_)
IntTrailingZeros(n) == IF n % 2 = 1 THEN 0 ELSE 1 + IntTrailingZeros(n \div 2)
RECURSIVE BTrailingZerosFrom(_, _)
BTrailingZerosFrom(a, i) ==
    IF a[i] = 0 THEN LimbBits + BTrailingZerosFrom(a, i + 1)
    ELSE IntTrailingZeros(a[i])
\* the number of trailing zero bits of a # 0
BTrailingZeros(a) == BTrailingZerosFrom(a, 1)

\* One step of binary long division: hi is the quotient and remainder so far,
\* bit the next bit of the dividend, b the divisor.
BDivSub(q, r2, b) ==
    IF BCmp(r2, b) >= 0 THEN [q |-> 2 * q + 1, r |-> BSub(r2, b)]
    ELSE [q |-> 2 * q, r |-> r2]
BDivBit(hi, bit, b) ==
    IF hi.r = <<>> /\ bit = 0 THEN [q |-> 2 * hi.q, r |-> <<>>]
    ELSE BDivSub(hi.q, BAdd(BMulSmall(hi.r, 2), BFromInt(bit)), b)

\* One limb of long division, bit by bit from bit LimbBits-1 down to bit j:
\* the quotient bits (an integer) and the remainder, starting from remainder
\* r0 (r0 < b) and bringing down the bits of limb x.
RECURSIVE BDivLimbFrom(_, _, _, _)
BDivLimbFrom(r0, x, b, j) ==
    IF j >= LimbBits THEN [q |-> 0, r |-> r0]
    ELSE BDivBit(BDivLimbFrom(r0, x, b, j + 1), (x \div 2^j) % 2, b)

\* Long division of the limbs i..Len(a) of a by b: quotient limbs
\* (little-endian, not normalised) and remainder.
BDivPush(hi, d) == [q |-> <<d.q>> \o hi.q, r |-> d.r]
BDivLimb(hi, x, b) ==
    IF hi.r = <<>> /\ x = 0 THEN [q |-> <<0>> \o hi.q, r |-> <<>>]
    ELSE BDivPush(hi, BDivLimbFrom(hi.r, x, b, 0))
RECURSIVE BDivModFrom(_, _, _)
BDivModFrom(a, b, i) ==
    IF i > Len(a) THEN [q |-> <<>>, r |-> <<>>]
    ELSE BDivLimb(BDivModFrom(a, b, i + 1), a[i], b)
BDivNorm(d) == [q |-> BNorm(d.q), r |-> d.r]
\* [q |-> a \div b, r |-> a % b], for b # 0
BDivMod(a, b) == BDivNorm(BDivModFrom(a, b, 1))

\* h * h, times 10 for an odd exponent
BPow10Step(odd, h) == IF odd THEN BMulSmall(BMul(h, h), 10) ELSE BMul(h, h)
\* 10^n
RECURSIVE BPow10(_)
BPow10(n) ==
    IF n = 0 THEN <<1>>
    ELSE IF n = 1 THEN <<10>>
    ELSE BPow10Step(n % 2 = 1, BPow10(n \div 2))

(***************************************************************************)
(* Python floats (binary64), non-negative.  k is "fin", "inf" or "nan"; a  *)
(* finite value is m * 2^e with m odd, or m = <<>> and e = 0 for zero, so  *)
(* that equal values are equal records.                                    *)
(***************************************************************************)
Precision == 53
MaxExponent == 1024
MinExponent == -1074

FZero == [k |-> "fin", m |-> <<>>, e |-> 0]
FInf == [k |-> "inf", m |-> <<>>, e |-> 0]
FNan == [k |-> "nan", m |-> <<>>, e |-> 0]

\* the float whose value is exactly n * 2^e (n within the precision)
FShift(n, e, z) == [k |-> "fin", m |-> BShr(n, z), e |-> e + z]
FCanon(n, e) == IF n = <<>> THEN FZero ELSE FShift(n, e, BTrailingZeros(n))
\* the same, or inf when the value is beyond the largest float
FPack(n, e) == IF BBitLen(n) + e > MaxExponent THEN FInf ELSE FCanon(n, e)

\* q + 1 or q: c compares the bits dropped with one half
BRoundUp(q, c) == IF c > 0 \/ (c = 0 /\ BIsOdd(q)) THEN BAdd(q, <<1>>) ELSE q
\* n / 2^s rounded to the nearest integer, ties to even (s > 0)
BRoundShr(n, s) == BRoundUp(BShr(n, s), BCmp(BLow(n, s), BShl(<<1>>, s - 1)))
FRoundBy(n, e, s) == IF s <= 0 THEN FPack(n, e) ELSE FPack(BRoundShr(n, s), e + s)
\* n * 2^e rounded to the nearest float, ties to even: s bits are dropped
FRound(n, e) ==
    IF n = <<>> THEN FZero
    ELSE FRoundBy(n, e, Max2(BBitLen(n) - Precision, MinExponent - e))

\* 2q, plus one "sticky" bit when the division left a remainder
BSticky(qr) == BAdd(BMulSmall(qr.q, 2), IF qr.r = <<>> THEN <<>> ELSE <<1>>)
FRatioBy(n, d, e, sh) == FRound(BSticky(BDivMod(BShl(n, sh), d)), e - sh - 1)
\* (n / d) * 2^e rounded to the nearest float, for n # 0, d # 0
FRoundRatio(n, d, e) ==
    FRatioBy(n, d, e, Max2(0, Precision + 3 + BBitLen(d) - BBitLen(n)))

FromInt(n) == FCanon(BFromInt(n), 0)

\* x * y
FMul(x, y) ==
    IF x.k = "nan" \/ y.k = "nan" THEN FNan
    ELSE IF x.k = "inf" \/ y.k = "inf"
    THEN (IF x = FZero \/ y = FZero THEN FNan ELSE FInf)
    ELSE FRound(BMul(x.m, y.m), x.e + y.e)

\* x + y
FAdd(x, y) ==
    IF x.k = "nan" \/ y.k = "nan" THEN FNan
    ELSE IF x.k = "inf" \/ y.k = "inf" THEN FInf
    ELSE IF x = FZero THEN y
    ELSE IF y = FZero THEN x
    ELSE LET e0 == Min2(x.e, y.e)
         IN  FRound(BAdd(BShl(x.m, x.e - e0), BShl(y.m, y.e - e0)), e0)

\* x / y, for y # 0 (the caller has checked y > 0)
FDiv(x, y) ==
    IF x.k = "nan" \/ y.k = "nan" THEN FNan
    ELSE IF x.k = "inf" THEN (IF y.k = "inf" THEN FNan ELSE FInf)
    ELSE IF y.k = "inf" \/ x = FZero THEN FZero
    ELSE FRoundRatio(x.m, y.m, x.e - y.e)

\* -1, 0, 1 for finite x, y
FCmpFin(x, y) ==
    IF x = FZero \/ y = FZero
    THEN (IF x = y THEN 0 ELSE IF x = FZero THEN -1 ELSE 1)
    ELSE LET e0 == Min2(x.e, y.e)
         IN  BCmp(BShl(x.m, x.e - e0), BShl(y.m, y.e - e0))

\* x < y: false when either is nan
FLt(x, y) ==
    IF x.k = "nan" \/ y.k = "nan" THEN FALSE
    ELSE IF x.k = "inf" THEN FALSE
    ELSE IF y.k = "inf" THEN TRUE
    ELSE FCmpFin(x, y) < 0

\* x >= y: false when either is nan
FGe(x, y) ==
    IF x.k = "nan" \/ y.k = "nan" THEN FALSE
    ELSE IF x.k = "inf" THEN TRUE
    ELSE IF y.k = "inf" THEN FALSE
    ELSE FCmpFin(x, y) >= 0

\* x > y
FGt(x, y) == FLt(y, x)
\* x <= y
FLe(x, y) == FGe(y, x)

(***************************************************************************)
(* Characters and strings.  A text is a string; Ch(s, i) is its i-th       *)
(* character as a one-character string.                                    *)
(***************************************************************************)
Ch(s, i) == SubSeq(s, i, i)
Digits == "0123456789"
UpperAlpha == "ABCDEFGHIJKLMNOPQRSTUVWXYZ"
LowerAlpha == "abcdefghijklmnopqrstuvwxyz"
CharsOf(s) == {Ch(s, i) : i \in 1..Len(s)}
DigitChars == CharsOf(Digits)
LetterChars == CharsOf(UpperAlpha) \cup CharsOf(LowerAlpha)
\* the index of character c in string s
IndexOf(s, c) == CHOOSE i \in 1..Len(s) : Ch(s, i) = c
DigitVal(c) == IndexOf(Digits, c) - 1
Lower(c) == IF c \in CharsOf(UpperAlpha) THEN Ch(LowerAlpha, IndexOf(UpperAlpha, c)) ELSE c
RECURSIVE LowerStr(_)
LowerStr(s) == IF s = "" THEN "" ELSE Lower(Ch(s, 1)) \o LowerStr(SubSeq(s, 2, Len(s)))

\* the end (last index) of the longest run of characters of class cls that
\* starts at i; i - 1 when there is none
RunEnd(s, i, cls) ==
    LET stops == {j \in i..Len(s) : Ch(s, j) \notin cls}
    IN  IF stops = {} THEN Max2(Len(s), i - 1) ELSE SetMin(stops) - 1

\* the number a string of decimal digits denotes
BPushDigit(hi, d) ==
    IF hi = <<>> THEN BFromInt(d) ELSE BAdd(BMulSmall(hi, 10), BFromInt(d))
RECURSIVE DigitsToBig(_)
DigitsToBig(s) ==
    IF s = "" THEN <<>>
    ELSE BPushDigit(DigitsToBig(SubSeq(s, 1, Len(s) - 1)), DigitVal(Ch(s, Len(s))))

\* [q |-> a \div k, r |-> a % k] for 0 < k < Base
BDivSmallStep(hi, x, k) ==
    [q |-> <<(hi.r * Base + x) \div k>> \o hi.q, r |-> (hi.r * Base + x) % k]
RECURSIVE BDivSmallFrom(_, _, _)
BDivSmallFrom(a, k, i) ==
    IF i > Len(a) THEN [q |-> <<>>, r |-> 0]
    ELSE BDivSmallStep(BDivSmallFrom(a, k, i + 1), a[i], k)
BDivSmall(a, k) == BDivNorm(BDivSmallFrom(a, k, 1))

RECURSIVE BToDec(_)
BToDecStep(d) == BToDec(d.q) \o Ch(Digits, d.r + 1)
\* the decimal digits of a ("" for zero)
BToDec(a) == IF a = <<>> THEN "" ELSE BToDecStep(BDivSmall(a, 10))

(***************************************************************************)
(* float(s) for a token s of the grammar ([A-Za-z0-9.]+ or digits and a    *)
(* point): ok = FALSE stands for ValueError.  Python accepts               *)
(* digits [. digits] [e digits], . digits [e digits], and, in any letter   *)
(* case, inf, infinity and nan.  (Signs, blanks and underscores cannot     *)
(* occur in a token.)                                                      *)
(***************************************************************************)
ValueError == [ok |-> FALSE, v |-> FZero]
Parsed(x) == [ok |-> TRUE, v |-> x]
\* decimal exponents beyond this overflow every non-zero mantissa to inf
HugeExp == 400

\* mantissa digits, decimal exponent x: the digits times 10^x
FromDecimal(mant, x) ==
    IF mant = <<>> THEN FZero
    ELSE IF x > HugeExp THEN FInf
    ELSE IF x >= 0 THEN FRound(BMul(mant, BPow10(x)), 0)
    ELSE FRoundRatio(mant, BPow10(-x), 0)
\* the exponent may be beyond any integer at hand: n is the token's length
FromParts(digits, nfrac, expBig, n) ==
    IF BCmp(expBig, BFromInt(HugeExp + n)) > 0
    THEN (IF DigitsToBig(digits) = <<>> THEN FZero ELSE FInf)
    ELSE FromDecimal(DigitsToBig(digits), BToInt(expBig) - nfrac)
\* s = intD [. fracD] [e expD] up to index p3
ParseParts(s, intD, fracD, hasExp, expD, p3) ==
    IF p3 # Len(s) \/ Len(intD) + Len(fracD) = 0 \/ (hasExp /\ expD = "")
    THEN ValueError
    ELSE Parsed(FromParts(intD \o fracD, Len(fracD), DigitsToBig(expD), Len(s)))
HasDot(s, p1) == p1 < Len(s) /\ Ch(s, p1 + 1) = "."
HasExp(s, p2) == p2 < Len(s) /\ Lower(Ch(s, p2 + 1)) = "e"
FracEnd(s, p1) == IF HasDot(s, p1) THEN RunEnd(s, p1 + 2, DigitChars) ELSE p1
ExpEnd(s, p2) == IF HasExp(s, p2) THEN RunEnd(s, p2 + 2, DigitChars) ELSE p2
\* the leading digits end at p1, the mantissa at p2, the exponent at p3
ParseNumber(s, p1, p2, p3) ==
    ParseParts(s, SubSeq(s, 1, p1), SubSeq(s, p1 + 2, p2), HasExp(s, p2),
               SubSeq(s, p2 + 2, p3), p3)
ParseAfterInt(s, p1) ==
    ParseNumber(s, p1, FracEnd(s, p1), ExpEnd(s, FracEnd(s, p1)))
ParseWord(s, low) ==
    IF low \in {"inf", "infinity"} THEN Parsed(FInf)
    ELSE IF low = "nan" THEN Parsed(FNan)
    ELSE ParseAfterInt(s, RunEnd(s, 1, DigitChars))
float(s) == ParseWord(s, LowerStr(s))

(***************************************************************************)
(* f"{x:.2f}": the exact value of x rounded to two decimals, ties to even. *)
(***************************************************************************)
PadCents(d) == IF Len(d) >= 3 THEN d ELSE SubSeq("000", 1, 3 - Len(d)) \o d
PointCents(d) == SubSeq(d, 1, Len(d) - 2) \o "." \o SubSeq(d, Len(d) - 1, Len(d))
\* n * 2^e rounded to an integer, ties to even
BRoundInt(n, e) == IF e >= 0 THEN BShl(n, e) ELSE BRoundShr(n, -e)
Format2f(x) ==
    IF x.k = "nan" THEN "nan"
    ELSE IF x.k = "inf" THEN "inf"
    ELSE PointCents(PadCents(BToDec(BRoundInt(BMulSmall(x.m, 100), x.e))))

(***************************************************************************)
(* Character classes of the regular expressions.                           *)
(***************************************************************************)
AlnumChars == LetterChars \cup DigitChars            \* [A-Za-z0-9]
WordChars == AlnumChars \cup {"_"}                   \* \w
GradeChars == AlnumChars \cup {"."}                  \* [A-Za-z0-9.]
SpaceChars == {" ", "\t", "\n", "\r", "\f"}           \* \s
Suffix(s, i) == SubSeq(s, i, Len(s))
\* whether string w occurs in s at index i
OccursAt(s, w, i) == i + Len(w) - 1 <= Len(s) /\ SubSeq(s, i, i + Len(w) - 1) = w

\* the position a greedy part settles on: the largest candidate; a lazy
\* part: the smallest; 0 stands for "no match"
MaxOrZero(S) == IF S = {} THEN 0 ELSE SetMax(S)
MinOrZero(S) == IF S = {} THEN 0 ELSE SetMin(S)
\* the index after k, for a match that ends at k
After(k) == IF k = 0 THEN 0 ELSE k + 1

(***************************************************************************)
(* preprocess_text: three re.sub passes.  Each pass finds the leftmost     *)
(* match at or after pos, copies the text before it, writes the            *)
(* replacement and goes on after the match.                                *)
(***************************************************************************)
\* (\w+)-\n(\w+) at i: the end k of group 1, the greedy \w+ backing off
\* until "-\n" and a word character follow; 0 when there is no match
HyphenG1End(t, i) ==
    MaxOrZero({k \in i..RunEnd(t, i, WordChars) :
                 /\ k + 3 <= Len(t)
                 /\ Ch(t, k + 1) = "-"
                 /\ Ch(t, k + 2) = "\n"
                 /\ Ch(t, k + 3) \in WordChars})

RECURSIVE SubHyphenFrom(_, _)
\* group 1 ends at k, group 2 at end: \1\2, then the rest
SubHyphenJoin(t, pos, k, end) ==
    SubSeq(t, pos, k) \o SubSeq(t, k + 3, end) \o SubHyphenFrom(t, end + 1)
SubHyphenMatch(t, pos, k) == SubHyphenJoin(t, pos, k, RunEnd(t, k + 3, WordChars))
\* i: the leftmost start of a match, 0 when there is none
SubHyphenAt(t, pos, i) ==
    IF i = 0 THEN Suffix(t, pos) ELSE SubHyphenMatch(t, pos, HyphenG1End(t, i))
\* re.sub(r'(\w+)-\n(\w+)', r'\1\2', t), from pos on
SubHyphenFrom(t, pos) ==
    SubHyphenAt(t, pos, MinOrZero({i \in pos..Len(t) : HyphenG1End(t, i) # 0}))

RECURSIVE SubNewlineFrom(_, _)
SubNewlineAt(t, pos, i) ==
    IF i = 0 THEN Suffix(t, pos)
    ELSE SubSeq(t, pos, i - 1) \o " " \o SubNewlineFrom(t, i + 1)
\* re.sub(r'\n', ' ', t), from pos on
SubNewlineFrom(t, pos) ==
    SubNewlineAt(t, pos, MinOrZero({i \in pos..Len(t) : Ch(t, i) = "\n"}))

\* (\d\w{4,})([A-Za-z]) at i: the end k of group 1, the greedy \w{4,}
\* backing off until a letter follows; 0 when there is no match
CodeG1End(t, i) ==
    IF Ch(t, i) \notin DigitChars THEN 0
    ELSE MaxOrZero({k \in (i + 4)..RunEnd(t, i + 1, WordChars) :
                      k + 1 <= Len(t) /\ Ch(t, k + 1) \in LetterChars})

RECURSIVE SubCodeFrom(_, _)
\* group 1 ends at k, group 2 is the letter after it: \1 \2, then the rest
SubCodeMatch(t, pos, k) ==
    SubSeq(t, pos, k) \o " " \o Ch(t, k + 1) \o SubCodeFrom(t, k + 2)
SubCodeAt(t, pos, i) ==
    IF i = 0 THEN Suffix(t, pos) ELSE SubCodeMatch(t, pos, CodeG1End(t, i))
\* re.sub(r'(\d\w{4,})([A-Za-z])', r'\1 \2', t), from pos on
SubCodeFrom(t, pos) ==
    SubCodeAt(t, pos, MinOrZero({i \in pos..Len(t) : CodeG1End(t, i) # 0}))

preprocess_text(text) ==
    SubCodeFrom(SubNewlineFrom(SubHyphenFrom(text, 1), 1), 1)

(***************************************************************************)
(* The section marker: "in" and split(...)[1].                             *)
(***************************************************************************)
Marker == "Grades Final examination"
\* the indices at or after pos where w occurs in s
Occurrences(s, w, pos) == {i \in pos..Len(s) : OccursAt(s, w, i)}
Contains(s, w) == Occurrences(s, w, 1) # {}
\* the piece from index from up to the next occurrence of w at nxt (0: none)
SplitUntil(s, from, nxt) ==
    IF nxt = 0 THEN Suffix(s, from) ELSE SubSeq(s, from, nxt - 1)
SplitFrom(s, w, from) == SplitUntil(s, from, MinOrZero(Occurrences(s, w, from)))
\* s.split(w)[1], for s containing w: the piece between the first occurrence
\* of w and the next one after it (or the end of s)
SplitSecond(s, w) == SplitFrom(s, w, SetMin(Occurrences(s, w, 1)) + Len(w))

\* the text that is scanned for courses
RelevantText(text) == IF Contains(text, Marker) THEN SplitSecond(text, Marker) ELSE text

(***************************************************************************)
(* regular_pattern, matched with the backtracking order of the regular     *)
(* expression engine: a greedy part takes the longest length for which the *)
(* rest of the pattern matches, the lazy name the shortest.                *)
(*   ([A-Za-z0-9]{5,})\s+(.*?)(\d{2}-\d{2}-\d{4})\s+([A-Za-z0-9.]+)\s+        *)
(*   (\d+\.\d+|\d+)                                                        *)
(***************************************************************************)
\* the digits at p end at d1; k is where the digits before a "." and a digit
\* end (0: there is no such point)
CreditsPick(t, p, d1, k) ==
    IF k # 0 THEN RunEnd(t, k + 2, DigitChars)
    ELSE IF d1 >= p THEN d1
    ELSE 0
CreditsEndOf(t, p, d1) ==
    CreditsPick(t, p, d1,
                MaxOrZero({k \in p..d1 : /\ k + 2 <= Len(t)
                                         /\ Ch(t, k + 1) = "."
                                         /\ Ch(t, k + 2) \in DigitChars}))
\* (\d+\.\d+|\d+) at p: the end of the match, 0 when there is none
CreditsEnd(t, p) == CreditsEndOf(t, p, RunEnd(t, p, DigitChars))

\* \s+(credits) after index g: the start of the credits, 0 when no match
CreditsStartAfter(t, g) ==
    After(MaxOrZero({k \in (g + 1)..RunEnd(t, g + 1, SpaceChars) :
                       CreditsEnd(t, k + 1) # 0}))

\* ([A-Za-z0-9.]+)\s+(credits) at q: the end of the grade, 0 when no match
GradeEnd(t, q) ==
    MaxOrZero({g \in q..RunEnd(t, q, GradeChars) : CreditsStartAfter(t, g) # 0})

\* \s+(grade)\s+(credits) after index d: the start of the grade, 0 when no match
GradeStartAfter(t, d) ==
    After(MaxOrZero({k \in (d + 1)..RunEnd(t, d + 1, SpaceChars) :
                       GradeEnd(t, k + 1) # 0}))

\* \d{2}-\d{2}-\d{4} at p
IsDate(t, p) ==
    /\ p + 9 <= Len(t)
    /\ \A j \in {0, 1, 3, 4, 6, 7, 8, 9} : Ch(t, p + j) \in DigitChars
    /\ Ch(t, p + 2) = "-"
    /\ Ch(t, p + 5) = "-"

\* (.*?)(date)\s+(grade)\s+(credits) at n0: the start of the date, 0 when no
\* match; the name is the shortest run of characters other than newline
DateStart(t, n0) ==
    MinOrZero({p \in n0..Len(t) :
                 /\ IsDate(t, p)
                 /\ \A j \in n0..(p - 1) : Ch(t, j) # "\n"
                 /\ GradeStartAfter(t, p + 9) # 0})

\* \s+(name)... after index c: the start of the name, 0 when no match
NameStartAfter(t, c) ==
    After(MaxOrZero({k \in (c + 1)..RunEnd(t, c + 1, SpaceChars) :
                       DateStart(t, k + 1) # 0}))

\* the whole pattern at i: the end of the course code, 0 when no match
CourseEnd(t, i) ==
    MaxOrZero({c \in (i + 4)..RunEnd(t, i, AlnumChars) : NameStartAfter(t, c) # 0})

\* the five groups of the match at i, and its end: the code is i..c, the
\* name n0..p-1, the date p..p+9, the grade q..g, the credits cr..ce
Groups(t, i, c, n0, p, q, g, cr, ce) ==
    [course |-> SubSeq(t, i, c), name |-> SubSeq(t, n0, p - 1),
     date |-> SubSeq(t, p, p + 9), grade |-> SubSeq(t, q, g),
     credits |-> SubSeq(t, cr, ce), end |-> ce]
MatchCredits(t, i, c, n0, p, q, g, cr) ==
    Groups(t, i, c, n0, p, q, g, cr, CreditsEnd(t, cr))
MatchGradeEnd(t, i, c, n0, p, q, g) ==
    MatchCredits(t, i, c, n0, p, q, g, CreditsStartAfter(t, g))
MatchGrade(t, i, c, n0, p, q) == MatchGradeEnd(t, i, c, n0, p, q, GradeEnd(t, q))
MatchDate(t, i, c, n0, p) == MatchGrade(t, i, c, n0, p, GradeStartAfter(t, p + 9))
MatchName(t, i, c, n0) == MatchDate(t, i, c, n0, DateStart(t, n0))
MatchCourse(t, i, c) == MatchName(t, i, c, NameStartAfter(t, c))
\* the match at i, for CourseEnd(t, i) # 0
MatchAt(t, i) == MatchCourse(t, i, CourseEnd(t, i))

RECURSIVE FindAllFrom(_, _)
\* the tuple findall returns for match m, then the matches after it
FindAllNext(t, m) ==
    <<[course |-> m.course, name |-> m.name, date |-> m.date,
       grade |-> m.grade, credits |-> m.credits]>>
    \o FindAllFrom(t, m.end + 1)
FindAllAt(t, i) == IF i = 0 THEN <<>> ELSE FindAllNext(t, MatchAt(t, i))
\* regular_pattern.findall(t), scanning from pos: the non-overlapping matches,
\* leftmost first
FindAllFrom(t, pos) ==
    FindAllAt(t, MinOrZero({i \in pos..Len(t) : CourseEnd(t, i) # 0}))
findall(t) == FindAllFrom(t, 1)

(***************************************************************************)
(* convert_to_us_gpa                                                       *)
(***************************************************************************)
\* the float a numeric literal of the source denotes
Lit(s) == float(s).v

\* the bands with ">" for ">=": a boundary grade falls in the lower band
convert_to_us_gpa_strict(grade) ==
    IF FGt(grade, Lit("9")) THEN Lit("4.0")
    ELSE IF FGt(grade, Lit("8")) THEN Lit("3.7")
    ELSE IF FGt(grade, Lit("7")) THEN Lit("3.0")
    ELSE IF FGt(grade, Lit("6")) THEN Lit("2.0")
    ELSE IF FGt(grade, Lit("5.5")) THEN Lit("1.0")
    ELSE Lit("0.0")

convert_to_us_gpa(grade) ==
    IF FGe(grade, Lit("9")) THEN Lit("4.0")
    ELSE IF FGe(grade, Lit("8")) THEN Lit("3.7")
    ELSE IF FGe(grade, Lit("7")) THEN Lit("3.0")
    ELSE IF FGe(grade, Lit("6")) THEN Lit("2.0")
    ELSE IF FGe(grade, Lit("5.5")) THEN Lit("1.0")
    ELSE Lit("0.0")

(***************************************************************************)
(* The inputs of a run: the manual_courses list written in the script and  *)
(* the texts of the pages of transcript.pdf.                               *)
(***************************************************************************)
MaxManual == 1
MaxPages == 2

Course(course, date, grade, credits) ==
    [course |-> course, date |-> date, grade |-> grade, credits |-> credits]

\* the list as the repository ships it
ShippedManual == <<Course("01 ", "01-01-2024", Lit("10.0"), Lit("6.0"))>>
\* entries a user may write: the shipped one, and one worth fewer than 5 credits
ManualPool ==
    {ShippedManual[1], Course("Thesis", "01-02-2024", Lit("7.0"), Lit("3.0"))}
ManualInputs == UNION {[1..n -> ManualPool] : n \in 0..MaxManual}

\* one transcript line
Entry(code, name, grade, credits) ==
    code \o " " \o name \o " 01-07-2023 " \o grade \o " " \o credits
ScenarioA == "5AAA0 Signal Processing 01-07-2023 8.5 5"
ScenarioB == "5AAA0 Signal Processing 01-07-2023 8.5 4"
ScenarioC == "5AAA0 Signal Processing 01-07-2023 NA 5"

\* pages of one line each, over a few grade and credits tokens
LinePages ==
    {Entry("5AAA0", "Signal", g, c) : g \in {"8.5", "NA"}, c \in {"4", "5", "10"}}
\* pages that exercise the layout: line breaks, hyphenation, a code that
\* abuts the name, the section marker once and twice, several lines
LayoutPages ==
    { ScenarioA, ScenarioB, ScenarioC,
      "Sig-\nnal",
      "5AAA0Signal 01-07-2023 8.5 5",
      "2IAB0\nData\nana-\nlytics 02-07-2023\n7.5\n5.0",
      Entry("5AAA0", "Old", "9.0", "5") \o " " \o Marker \o " "
          \o Entry("5BBB0", "Logic", "6.0", "5.0"),
      Entry("5AAA0", "Old", "9.0", "5") \o " " \o Marker \o " "
          \o Entry("5BBB0", "Logic", "6.0", "5.0") \o " " \o Marker \o " "
          \o Entry("5CCC0", "Optics", "7.0", "5"),
      Entry("5AAA0", "Calculus", "NA", "5") \o "\n"
          \o Entry("5BBB0", "Logic", "6.0", "5") \o "\n"
          \o Entry("5CCC0", "Optics", "8.0", "10") \o "\n"
          \o Entry("5DDD0", "Ethics", "9.5", "2.5"),
      Entry("5AAA0", "Calculus", "5.0", "6") \o "\n"
          \o Entry("5BBB0", "Logic", "5.3", "6") \o "\n"
          \o Entry("5CCC0", "Optics", "6.1", "7"),
      Entry("5AAA0", "Calculus", "nan", "5") \o "\n"
          \o Entry("5BBB0", "Logic", "8.0", "5") }
\* documents: up to MaxPages one-line pages, or a layout page alone or
\* followed by one more page
PagesInputs ==
    UNION {[1..n -> LinePages] : n \in 0..MaxPages}
    \cup {<<p>> : p \in LayoutPages}
    \cup {<<p, ScenarioA>> : p \in LayoutPages}

(***************************************************************************)
(* The program.                                                            *)
(***************************************************************************)
VARIABLES
    manual_courses,         \* the list written in the script
    pages,                  \* reader.pages: the text of each page
    pc,                     \* the statement the script is at
    mi,                     \* position of the manual_courses loop
    pi,                     \* position of the page loop
    text,                   \* the local variable text of the page loop
    matches,                \* the local variable matches
    k,                      \* position of the match loop
    total_weighted_grades,
    total_credits,
    total_ects,
    included_courses,
    european_gpa,
    us_gpa,                 \* the value convert_to_us_gpa returned
    output                  \* what the script printed

vars == <<manual_courses, pages, pc, mi, pi, text, matches, k,
          total_weighted_grades, total_credits, total_ects, included_courses,
          european_gpa, us_gpa, output>>
inputs == <<manual_courses, pages>>
totals == <<total_weighted_grades, total_credits, total_ects, included_courses>>
result == <<european_gpa, us_gpa, output>>

InitWith(ms, ps) ==
    /\ manual_courses = ms
    /\ pages = ps
    /\ pc = "manual"
    /\ mi = 1
    /\ pi = 1
    /\ text = ""
    /\ matches = <<>>
    /\ k = 1
    /\ total_weighted_grades = FZero
    /\ total_credits = FZero
    /\ total_ects = FZero
    /\ included_courses = <<>>
    /\ european_gpa = FZero
    /\ us_gpa = FZero
    /\ output = [kind |-> "running", ects |-> FZero, european |-> "", us |-> ""]

Init == \E ms \in ManualInputs, ps \in PagesInputs : InitWith(ms, ps)

\* the update of total_ects left out
IncludeCourseNoEcts(c) ==
    /\ included_courses' = Append(included_courses, c)
    /\ total_weighted_grades' = FAdd(total_weighted_grades, FMul(c.grade, c.credits))
    /\ total_credits' = FAdd(total_credits, c.credits)
    /\ total_ects' = total_ects

\* append a course and add it to the totals
IncludeCourse(c) ==
    /\ included_courses' = Append(included_courses, c)
    /\ total_weighted_grades' = FAdd(total_weighted_grades, FMul(c.grade, c.credits))
    /\ total_credits' = FAdd(total_credits, c.credits)
    /\ total_ects' = FAdd(total_ects, c.credits)

\* the credit threshold of the page loop applied to the manual entries too
AddManualCourseFiltered ==
    /\ pc = "manual"
    /\ mi <= Len(manual_courses)
    /\ IF FLt(manual_courses[mi].credits, FromInt(5))
       THEN UNCHANGED totals
       ELSE /\ included_courses' = Append(included_courses, manual_courses[mi])
            /\ total_weighted_grades' =
                   FAdd(total_weighted_grades,
                        FMul(manual_courses[mi].grade, manual_courses[mi].credits))
            /\ total_credits' = FAdd(total_credits, manual_courses[mi].credits)
            /\ total_ects' = FAdd(total_ects, manual_courses[mi].credits)
    /\ mi' = mi + 1
    /\ UNCHANGED <<inputs, pc, pi, text, matches, k, result>>

\* for course, date, grade, credits in manual_courses: one iteration
AddManualCourse ==
    /\ pc = "manual"
    /\ mi <= Len(manual_courses)
    /\ IncludeCourse(manual_courses[mi])
    /\ mi' = mi + 1
    /\ UNCHANGED <<inputs, pc, pi, text, matches, k, result>>

\* the manual_courses loop ends
ManualDone ==
    /\ pc = "manual"
    /\ mi > Len(manual_courses)
    /\ pc' = "page"
    /\ UNCHANGED <<inputs, mi, pi, text, matches, k, totals, result>>

\* for page in reader.pages: text = page.extract_text()
ExtractText ==
    /\ pc = "page"
    /\ pi <= Len(pages)
    /\ text' = pages[pi]
    /\ pc' = "preprocess"
    /\ UNCHANGED <<inputs, mi, pi, matches, k, totals, result>>

\* text = preprocess_text(text)
Preprocess ==
    /\ pc = "preprocess"
    /\ text' = preprocess_text(text)
    /\ pc' = "truncate"
    /\ UNCHANGED <<inputs, mi, pi, matches, k, totals, result>>

\* if "Grades Final examination" in text: text = text.split(...)[1]
Truncate ==
    /\ pc = "truncate"
    /\ text' = RelevantText(text)
    /\ pc' = "findall"
    /\ UNCHANGED <<inputs, mi, pi, matches, k, totals, result>>

\* matches = regular_pattern.findall(text)
FindAll ==
    /\ pc = "findall"
    /\ matches' = findall(text)
    /\ k' = 1
    /\ pc' = "match"
    /\ UNCHANGED <<inputs, mi, pi, text, totals, result>>

MinCredits == 5

\* the body of "for match in matches": what becomes of one match
\*   "invalid": float() raised ValueError;  "small": credits < 5;
\*   "include": the course is included
\* the comparison written "<=": a course of exactly 5 credits is skipped
VerdictOfInclusive(grade, credits) ==
    IF ~grade.ok \/ ~credits.ok THEN "invalid"
    ELSE IF FLe(credits.v, FromInt(MinCredits)) THEN "small"
    ELSE "include"
VerdictOf(grade, credits) ==
    IF ~grade.ok \/ ~credits.ok THEN "invalid"
    ELSE IF FLt(credits.v, FromInt(MinCredits)) THEN "small"
    ELSE "include"
Verdict(m) == VerdictOf(float(m.grade), float(m.credits))

\* the tuple appended for an included match
Included(m) ==
    Course(m.course \o " " \o m.name, m.date, float(m.grade).v, float(m.credits).v)

\* except ValueError: continue
SkipInvalid ==
    /\ pc = "match"
    /\ k <= Len(matches)
    /\ Verdict(matches[k]) = "invalid"
    /\ k' = k + 1
    /\ UNCHANGED <<inputs, pc, mi, pi, text, matches, totals, result>>

\* if credits < 5: continue
SkipSmall ==
    /\ pc = "match"
    /\ k <= Len(matches)
    /\ Verdict(matches[k]) = "small"
    /\ k' = k + 1
    /\ UNCHANGED <<inputs, pc, mi, pi, text, matches, totals, result>>

\* included_courses.append(...); update totals
IncludeMatch ==
    /\ pc = "match"
    /\ k <= Len(matches)
    /\ Verdict(matches[k]) = "include"
    /\ IncludeCourse(Included(matches[k]))
    /\ k' = k + 1
    /\ UNCHANGED <<inputs, pc, mi, pi, text, matches, result>>

\* the match loop ends: on to the next page
PageDone ==
    /\ pc = "match"
    /\ k > Len(matches)
    /\ pi' = pi + 1
    /\ pc' = "page"
    /\ UNCHANGED <<inputs, mi, text, matches, k, totals, result>>

\* the guard "if total_credits > 0" left out
HasCreditsAlways(tc) == TRUE
\* whether the script takes the branch that prints the GPA values
HasCredits(tc) == FGt(tc, FZero)

\* x / y: ok = FALSE stands for ZeroDivisionError, which ends the script
Divide(x, y) ==
    IF y = FZero THEN [ok |-> FALSE, v |-> FZero] ELSE [ok |-> TRUE, v |-> FDiv(x, y)]

\* what the script has printed: the line it ends on, and for the report the
\* total of ECTS and the two averages as "{:.2f}" writes them
Printed(kind, ects, european, us) ==
    [kind |-> kind, ects |-> ects, european |-> european, us |-> us]
NoData == Printed("No valid courses found for GPA calculation.", FZero, "", "")
Crashed == Printed("ZeroDivisionError", FZero, "", "")

\* print(f'Total ECTS: ...'); print(f'Average Grade ...: {european_gpa:.2f}');
\* print(f'US GPA: {convert_to_us_gpa(european_gpa):.2f}')
PrintGpa(european, us) ==
    /\ european_gpa' = european
    /\ us_gpa' = us
    /\ output' = Printed("report", total_ects, Format2f(european), Format2f(us))
\* european_gpa = total_weighted_grades / total_credits, then the prints
GpaReport(q) ==
    IF q.ok THEN PrintGpa(q.v, convert_to_us_gpa(q.v))
    ELSE output' = Crashed /\ UNCHANGED <<european_gpa, us_gpa>>

\* if total_credits > 0: european_gpa = ...; print(...) else: print('No valid ...')
Report ==
    /\ pc = "page"
    /\ pi > Len(pages)
    /\ IF HasCredits(total_credits)
       THEN GpaReport(Divide(total_weighted_grades, total_credits))
       ELSE output' = NoData /\ UNCHANGED <<european_gpa, us_gpa>>
    /\ pc' = "done"
    /\ UNCHANGED <<inputs, mi, pi, text, matches, k, totals>>

Next ==
    \/ AddManualCourse
    \/ ManualDone
    \/ ExtractText
    \/ Preprocess
    \/ Truncate
    \/ FindAll
    \/ SkipInvalid
    \/ SkipSmall
    \/ IncludeMatch
    \/ PageDone
    \/ Report

Spec == Init /\ [][Next]_vars

(***************************************************************************)
(* convert_to_us_gpa on its own: a grade of the grid 0, 1/StepsPerPoint,   *)
(* 2/StepsPerPoint, ... is converted.                                      *)
(***************************************************************************)
StepsPerPoint == 10
MaxGradeStep == 100
\* the float nearest to n / StepsPerPoint
GradeAt(n) == FDiv(FromInt(n), FromInt(StepsPerPoint))

ConvInit ==
    \E n \in 0..MaxGradeStep :
        /\ manual_courses = <<>>
        /\ pages = <<>>
        /\ pc = "convert"
        /\ mi = 1
        /\ pi = 1
        /\ text = ""
        /\ matches = <<>>
        /\ k = 1
        /\ total_weighted_grades = FZero
        /\ total_credits = FZero
        /\ total_ects = FZero
        /\ included_courses = <<>>
        /\ european_gpa = GradeAt(n)
        /\ us_gpa = FZero
        /\ output = [kind |-> "running", ects |-> FZero, european |-> "", us |-> ""]

\* convert_to_us_gpa(european_gpa)
Convert ==
    /\ pc = "convert"
    /\ us_gpa' = convert_to_us_gpa(european_gpa)
    /\ pc' = "converted"
    /\ UNCHANGED <<inputs, mi, pi, text, matches, k, totals, european_gpa, output>>

SpecConv == ConvInit /\ [][Convert]_vars

(***************************************************************************)
(* Properties.                                                             *)
(***************************************************************************)
\* the grades and credits of a list of courses
Marks(cs) == [i \in 1..Len(cs) |-> <<cs[i].grade, cs[i].credits>>]
\* the entries of included_courses that came from page text
FromPages ==
    SubSeq(included_courses, Len(manual_courses) + 1, Len(included_courses))
\* sums over a list of courses, added from left to right starting from 0
RECURSIVE SumCredits(_)
SumCredits(cs) ==
    IF cs = <<>> THEN FZero
    ELSE FAdd(SumCredits(SubSeq(cs, 1, Len(cs) - 1)), cs[Len(cs)].credits)
RECURSIVE SumWeighted(_)
SumWeighted(cs) ==
    IF cs = <<>> THEN FZero
    ELSE FAdd(SumWeighted(SubSeq(cs, 1, Len(cs) - 1)),
              FMul(cs[Len(cs)].grade, cs[Len(cs)].credits))
\* the candidate the match loop is at
AtCandidate == pc = "match" /\ k <= Len(matches)

\* C1: a candidate of fewer than 5 credits leaves included_courses and the
\* totals as they are, whatever its grade; a candidate of exactly 5 credits
\* with a grade that float() accepts is appended and added to the totals;
\* every entry of included_courses that came from page text has credits >= 5.
C1_Step ==
    AtCandidate =>
        /\ FLt(float(matches[k].credits).v, Lit("5")) => UNCHANGED totals
        /\ (float(matches[k].credits).v = Lit("5") /\ float(matches[k].grade).ok) =>
              /\ included_courses' =
                    Append(included_courses,
                           Course(matches[k].course \o " " \o matches[k].name,
                                  matches[k].date, float(matches[k].grade).v,
                                  Lit("5")))
              /\ total_credits' = FAdd(total_credits, Lit("5"))
              /\ total_ects' = FAdd(total_ects, Lit("5"))
              /\ total_weighted_grades' =
                    FAdd(total_weighted_grades,
                         FMul(float(matches[k].grade).v, Lit("5")))
C1_ExtractedAtLeastFive ==
    \A i \in 1..Len(FromPages) : FGe(FromPages[i].credits, Lit("5"))
C1_CreditThreshold == []C1_ExtractedAtLeastFive /\ [][C1_Step]_vars
\* a document of two pages: 8.5 with 4 credits, then 8.5 with 5 credits; only
\* the second is included
C1_Witness ==
    /\ pc = "done"
    /\ manual_courses = <<>>
    /\ pages = <<Entry("5AAA0", "Signal", "8.5", "4"), Entry("5AAA0", "Signal", "8.5", "5")>>
    /\ Marks(included_courses) = << <<Lit("8.5"), Lit("5")>> >>

\* C2: a candidate whose grade or credits token is not a number (here: has no
\* digit in it, like NA) is dropped: the totals and included_courses stay
\* as they are and the loop goes on to the next candidate.
NoDigit(s) == \A i \in 1..Len(s) : Ch(s, i) \notin DigitChars
C2_Step ==
    (AtCandidate /\ (NoDigit(matches[k].grade) \/ NoDigit(matches[k].credits))) =>
        /\ UNCHANGED totals
        /\ k' = k + 1
        /\ pc' = "match"
C2_NonNumericDropped == [][C2_Step]_vars
\* the candidate with the grade token "nan" has been included: the total of
\* weighted grades is nan
C2_Witness ==
    /\ pc = "match"
    /\ k = 2
    /\ matches[1].grade = "nan"
    /\ Len(FromPages) = 1
    /\ FromPages[1].grade = FNan
    /\ total_weighted_grades = FNan

\* C3: at the end of the run, if total_credits > 0 the report holds
\* european_gpa = total_weighted_grades / total_credits and the US GPA is
\* convert_to_us_gpa of that one average; otherwise the outcome is "No valid
\* courses"; the division never fails.  With records 6.0 x 5 and 8.0 x 10:
\* total_credits 15, total_weighted_grades 110, 7.33 and 3.0.
C3_Finalize ==
    pc = "done" =>
        /\ output # Crashed
        /\ IF FGt(total_credits, FZero)
           THEN /\ output.kind = "report"
                /\ european_gpa = FDiv(total_weighted_grades, total_credits)
                /\ us_gpa = convert_to_us_gpa(european_gpa)
                /\ output.european = Format2f(european_gpa)
                /\ output.us = Format2f(us_gpa)
           ELSE output = NoData
        /\ Marks(included_courses) = << <<Lit("6.0"), Lit("5")>>, <<Lit("8.0"), Lit("10")>> >> =>
              /\ total_credits = Lit("15")
              /\ total_weighted_grades = Lit("110")
              /\ output.european = "7.33"
              /\ us_gpa = Lit("3.0")
\* the run that accepts 6.0 x 5 and 8.0 x 10 has ended
C3_Witness ==
    /\ pc = "done"
    /\ Marks(included_courses) = << <<Lit("6.0"), Lit("5")>>, <<Lit("8.0"), Lit("10")>> >>
    /\ output.kind = "report"

\* C4: the script as it is written (manual_courses as shipped), run on a
\* document of one page "5AAA0 Signal Processing 01-07-2023 8.5 5", includes
\* exactly one course and prints 8.50 and 3.70; with credits "4" it prints
\* "No valid courses".
C4_EndToEnd ==
    (pc = "done" /\ manual_courses = ShippedManual) =>
        /\ pages = <<ScenarioA>> =>
              /\ Marks(included_courses) = << <<Lit("8.5"), Lit("5")>> >>
              /\ output.kind = "report"
              /\ output.european = "8.50"
              /\ output.us = "3.70"
        /\ pages = <<ScenarioB>> => output = NoData
\* the shipped script on the page of 8.5 x 5 has included two courses and
\* printed 9.32 and 4.00
C4_Witness ==
    /\ pc = "done"
    /\ manual_courses = ShippedManual
    /\ pages = <<ScenarioA>>
    /\ Marks(included_courses) = << <<Lit("10.0"), Lit("6.0")>>, <<Lit("8.5"), Lit("5")>> >>
    /\ output.european = "9.32"
    /\ output.us = "4.00"

\* C5: folding the included courses in any other order gives the outcome the
\* run gave: the same European GPA and US GPA, or "No valid courses" in both.
Perms(cs) ==
    {[i \in 1..Len(cs) |-> cs[f[i]]] :
        f \in {g \in [1..Len(cs) -> 1..Len(cs)] :
                 \A i, j \in 1..Len(cs) : g[i] = g[j] => i = j}}
OutcomeOf(twg, tc) ==
    IF FGt(tc, FZero)
    THEN [nodata |-> FALSE, european |-> FDiv(twg, tc),
          us |-> convert_to_us_gpa(FDiv(twg, tc))]
    ELSE [nodata |-> TRUE, european |-> FZero, us |-> FZero]
Outcome(cs) == OutcomeOf(SumWeighted(cs), SumCredits(cs))
C5_OrderIndependent ==
    pc = "done" =>
        \A p \in Perms(included_courses) :
            Outcome(p) = [nodata |-> output = NoData, european |-> european_gpa,
                          us |-> us_gpa]

\* the courses 5.0 x 6, 5.3 x 6, 6.1 x 7 in this order gave the US GPA 1.0;
\* with the last two exchanged the fold gives 0.0
C5_Witness ==
    /\ pc = "done"
    /\ Marks(included_courses) =
          << <<Lit("5.0"), Lit("6")>>, <<Lit("5.3"), Lit("6")>>, <<Lit("6.1"), Lit("7")>> >>
    /\ us_gpa = Lit("1.0")
    /\ Outcome(<<included_courses[1], included_courses[3], included_courses[2]>>).us
          = Lit("0.0")

\* C6: convert_to_us_gpa gives 4.0 from 9 on, 3.7 from 8, 3.0 from 7, 2.0
\* from 6, 1.0 from 5.5 and 0.0 below, a boundary grade belonging to the
\* higher band, and never gives a lower grade a higher value.
TableAt(n) ==
    IF n >= 9 * StepsPerPoint THEN "4.0"
    ELSE IF n >= 8 * StepsPerPoint THEN "3.7"
    ELSE IF n >= 7 * StepsPerPoint THEN "3.0"
    ELSE IF n >= 6 * StepsPerPoint THEN "2.0"
    ELSE IF 2 * n >= 11 * StepsPerPoint THEN "1.0"
    ELSE "0.0"
C6_ConvertTable ==
    pc = "converted" =>
        \A n \in 0..MaxGradeStep :
            /\ european_gpa = GradeAt(n) => us_gpa = Lit(TableAt(n))
            /\ FLe(GradeAt(n), european_gpa) =>
                  FLe(convert_to_us_gpa(GradeAt(n)), us_gpa)
\* the boundary 5.5 has been converted
C6_Witness == pc = "converted" /\ european_gpa = Lit("5.5") /\ us_gpa = Lit("1.0")

C8_Idempotent ==
    (pc = "truncate" /\ ~Contains(pages[pi], "\n")) => preprocess_text(text) = text
\* a code that abuts the name: each application moves the space one letter
\* to the left
C8_Witness ==
    /\ pc = "truncate"
    /\ pages[pi] = "5AAA0Signal 01-07-2023 8.5 5"
    /\ text = "5AAA0Signa l 01-07-2023 8.5 5"
    /\ preprocess_text(text) = "5AAA0Sign a l 01-07-2023 8.5 5"

\* C9: on a page that holds the marker, the candidates are those of all the
\* text after the (first) marker, also when the marker occurs again; on a
\* page without it, those of the whole text.
AfterMarker(t) ==
    IF Contains(t, Marker)
    THEN Suffix(t, SetMin(Occurrences(t, Marker, 1)) + Len(Marker))
    ELSE t
C9_Truncation ==
    pc = "match" => matches = findall(AfterMarker(preprocess_text(pages[pi])))
\* a page with the marker twice: one candidate was found, the text after the
\* first marker holds two
C9_Witness ==
    /\ pc = "match"
    /\ Cardinality(Occurrences(preprocess_text(pages[pi]), Marker, 1)) = 2
    /\ Len(matches) = 1
    /\ Len(findall(AfterMarker(preprocess_text(pages[pi])))) = 2

\* C10: in every state total_credits and total_ects are the sum of the
\* credits of included_courses, and total_weighted_grades the sum of
\* grade x credits over included_courses.
C10_Aggregate ==
    /\ total_credits = SumCredits(included_courses)
    /\ total_ects = SumCredits(included_courses)
    /\ total_weighted_grades = SumWeighted(included_courses)
\* three courses are included: one manual entry and two from a page
C10_Witness ==
    /\ Len(manual_courses) = 1
    /\ Len(included_courses) = 3
    /\ pc = "match"

=============================================================================
